---- MODULE Spec2Model ----
(***************************************************************************)
(* A model of blynk.py: a command line tool that resolves device or group  *)
(* names into devices of a static table and reads or writes their pins     *)
(* through HTTP GET requests.                                              *)
(*                                                                         *)
(* Numbers are kept in tenths (the value 0.5 is 5, the value 2 is 20), so  *)
(* that whole and fractional pin values are both representable.  Python    *)
(* dicts are sequences of <<key, value>> items in insertion order.  The    *)
(* action token is a sequence of characters, because the program slices    *)
(* it; selector tokens are only compared for equality and stay strings.    *)
(***************************************************************************)
EXTENDS Integers, Sequences, FiniteSets, TLC

VARIABLES
    all_devices,        \* the configuration table (dict name -> dict)
    argv,               \* [args, action]: sys.argv[1:] split at the last token
    pc,                 \* "start", "set_to_state", "get_state", "done", "failed"
    branch,             \* the branch of take_action that is running
    devices_to_modify,  \* result of choose_devices
    devices,            \* the list apply_function / get_status_as_dict iterates
    i,                  \* 1-based position in devices
    value,              \* value argument of the pending set_to_state call
    status,             \* dict built by get_status_as_dict
    log,                \* history of the HTTP requests issued, with their outcome
    stdout,             \* what the invocation printed
    exc,                \* the exception that ended the invocation, "" if none
    codec_d,            \* default_state argument of the codec run
    codec_trace         \* successive values of the codec run

vars == <<all_devices, argv, pc, branch, devices_to_modify, devices, i, value,
          status, log, stdout, exc, codec_d, codec_trace>>

(***************************************************************************)
(* Bounds                                                                  *)
(***************************************************************************)
MaxArgs == 2    \* selector tokens on the command line
MaxVal == 12    \* whole numbers fed to the codec run are in -MaxVal..MaxVal

(***************************************************************************)
(* Python helpers                                                          *)
(***************************************************************************)
Keys(d) == [k \in DOMAIN d |-> d[k][1]]
KeySet(d) == {d[k][1] : k \in DOMAIN d}
Item(d, key) == d[CHOOSE k \in DOMAIN d : d[k][1] = key][2]
DictSet(d, key, v) ==
    IF key \in KeySet(d)
    THEN [k \in DOMAIN d |-> IF d[k][1] = key THEN <<key, v>> ELSE d[k]]
    ELSE Append(d, <<key, v>>)
Elems(s) == {s[k] : k \in DOMAIN s}
Take(s, n) == SubSeq(s, 1, IF Len(s) < n THEN Len(s) ELSE n)

RECURSIVE XorNat(_, _)
XorNat(a, b) ==
    IF a = 0 THEN b
    ELSE IF b = 0 THEN a
    ELSE (((a % 2) + (b % 2)) % 2) + 2 * XorNat(a \div 2, b \div 2)

\* Python's ^ on unbounded two's complement integers
Xor(a, b) ==
    IF a >= 0 /\ b >= 0 THEN XorNat(a, b)
    ELSE IF a < 0 /\ b >= 0 THEN -1 - XorNat(-1 - a, b)
    ELSE IF b < 0 /\ a >= 0 THEN -1 - XorNat(a, -1 - b)
    ELSE XorNat(-1 - a, -1 - b)

(***************************************************************************)
(* float(token) for the decimal literals sign? digits+ ('.' digit?)?  and  *)
(* sign? '.' digit, the result in tenths; a token of letters is a          *)
(* ValueError.  The other literals Python accepts (exponents, inf, nan,    *)
(* underscores, more fractional digits) are not among the tokens the       *)
(* model is run on.                                                        *)
(***************************************************************************)
Digits == <<"0", "1", "2", "3", "4", "5", "6", "7", "8", "9">>
IsDigit(c) == \E k \in 1..10 : Digits[k] = c
DigitVal(c) == (CHOOSE k \in 1..10 : Digits[k] = c) - 1

RECURSIVE DigitsVal(_)
DigitsVal(s) ==
    IF s = <<>> THEN 0
    ELSE 10 * DigitsVal(SubSeq(s, 1, Len(s) - 1)) + DigitVal(s[Len(s)])

AllDigits(s) == \A k \in DOMAIN s : IsDigit(s[k])

UnsignedFloat(s) ==
    LET dots == {k \in DOMAIN s : s[k] = "."}
    IN  IF dots = {}
        THEN IF s # <<>> /\ AllDigits(s)
             THEN [ok |-> TRUE, v |-> 10 * DigitsVal(s)]
             ELSE [ok |-> FALSE, v |-> 0]
        ELSE LET p == CHOOSE k \in dots : TRUE
                 whole == SubSeq(s, 1, p - 1)
                 frac == SubSeq(s, p + 1, Len(s))
             IN  IF Cardinality(dots) = 1 /\ AllDigits(whole) /\ AllDigits(frac)
                    /\ Len(frac) <= 1 /\ Len(whole) + Len(frac) >= 1
                 THEN [ok |-> TRUE,
                       v |-> 10 * DigitsVal(whole) + DigitsVal(frac)]
                 ELSE [ok |-> FALSE, v |-> 0]

float(s) ==
    IF s # <<>> /\ s[1] \in {"-", "+"}
    THEN LET u == UnsignedFloat(Tail(s))
         IN  [ok |-> u.ok, v |-> IF s[1] = "-" THEN 0 - u.v ELSE u.v]
    ELSE UnsignedFloat(s)

(***************************************************************************)
(* Configuration                                                           *)
(***************************************************************************)
exclude == {"temperature", "humidity"}
groups == {"bedroom", "kitchen"}

\* the table as shipped
shipped_devices ==
    << <<"bedroom_light", [pin |-> "V3", auth |-> "<auth_token>", default |-> 0, group |-> "bedroom"]>>,
       <<"kitchen_light", [pin |-> "d2", auth |-> "<auth_token>", default |-> 1, group |-> "kitchen"]>>,
       <<"temperature", [pin |-> "V6", auth |-> "<auth_token>"]>>,
       <<"humidity", [pin |-> "V5", auth |-> "<auth_token>"]>> >>

\* the shipped table with two more switchable devices configured, one in
\* each group
extended_devices ==
    shipped_devices \o
    << <<"bedroom_lamp", [pin |-> "V4", auth |-> "<auth_token>", default |-> 1, group |-> "bedroom"]>>,
       <<"kitchen_fan", [pin |-> "d7", auth |-> "<auth_token>", default |-> 0, group |-> "kitchen"]>> >>

Configurations == {shipped_devices, extended_devices}

\* dict.get("group"): None when the key is missing
get_group(rec) == IF "group" \in DOMAIN rec THEN rec.group ELSE "None"

\* len(name) of the device names of the tables
len(name) ==
    CASE name = "bedroom_light" -> 13
      [] name = "kitchen_light" -> 13
      [] name = "temperature" -> 11
      [] name = "humidity" -> 8
      [] name = "bedroom_lamp" -> 12
      [] name = "kitchen_fan" -> 11

(***************************************************************************)
(* Pin value codec                                                         *)
(***************************************************************************)
is_integer(x) == x % 10 = 0

process_pin_or(x, default_state) ==
    IF is_integer(x)
    THEN 10 * (IF (x \div 10) % 2 = 1 \/ default_state = 1
               THEN 2 * ((x \div 10) \div 2) + 1 ELSE x \div 10)
    ELSE x

process_pin(x, default_state) ==
    IF is_integer(x) THEN 10 * Xor(x \div 10, default_state) ELSE x

(***************************************************************************)
(* Device resolver                                                         *)
(***************************************************************************)
choose_devices_s_only(action, args) ==
    IF args[1] \in {"all", "a"}
    THEN SelectSeq(Keys(all_devices),
                   LAMBDA x : x \notin exclude \/ Take(action, 1) \in {<<"s">>})
    ELSE IF args[1] \in groups
    THEN SelectSeq(Keys(all_devices),
                   LAMBDA x : args[1] = get_group(Item(all_devices, x))
                              /\ (x \notin exclude \/ Take(action, 1) \in {<<"s">>}))
    ELSE args

choose_devices_known_only(action, args) ==
    IF args[1] \in {"all", "a"}
    THEN SelectSeq(Keys(all_devices),
                   LAMBDA x : x \notin exclude \/ Take(action, 1) \in {<<"s">>, <<"p">>})
    ELSE IF args[1] \in groups
    THEN SelectSeq(Keys(all_devices),
                   LAMBDA x : args[1] = get_group(Item(all_devices, x))
                              /\ (x \notin exclude \/ Take(action, 1) \in {<<"s">>, <<"p">>}))
    ELSE SelectSeq(args, LAMBDA x : x \in KeySet(all_devices))

choose_devices(action, args) ==
    IF args[1] \in {"all", "a"}
    THEN SelectSeq(Keys(all_devices),
                   LAMBDA x : x \notin exclude \/ Take(action, 1) \in {<<"s">>, <<"p">>})
    ELSE IF args[1] \in groups
    THEN SelectSeq(Keys(all_devices),
                   LAMBDA x : args[1] = get_group(Item(all_devices, x))
                              /\ (x \notin exclude \/ Take(action, 1) \in {<<"s">>, <<"p">>}))
    ELSE args

(***************************************************************************)
(* Remote endpoint client: what one call does with the table and with the  *)
(* response, without the request itself                                    *)
(***************************************************************************)
\* set_to_state up to the request: the exception raised, or the pin and the
\* encoded value of the update request
set_to_state_call_default0(device, v) ==
    IF device \notin KeySet(all_devices)
    THEN [exc |-> "KeyError", pin |-> "", value |-> 0]
    ELSE LET rec == Item(all_devices, device)
         IN  [exc |-> "",
              pin |-> rec.pin,
              value |-> process_pin(v, IF "default" \in DOMAIN rec
                                       THEN rec.default ELSE 0)]

set_to_state_call(device, v) ==
    IF device \notin KeySet(all_devices)
    THEN [exc |-> "KeyError", pin |-> "", value |-> 0]
    ELSE LET rec == Item(all_devices, device)
         IN  IF "default" \notin DOMAIN rec
             THEN [exc |-> "KeyError", pin |-> "", value |-> 0]
             ELSE [exc |-> "", pin |-> rec.pin,
                   value |-> process_pin(v, rec.default)]

\* the exception float(r.json()[0]) raises on a payload of the given kind,
\* "" when the first element of the payload is a number or a numeric string:
\*   "notjson"  the body is not JSON: r.json() raises a JSONDecodeError,
\*              which is a ValueError
\*   "object"   a JSON object: [0] raises KeyError
\*   "empty"    the empty JSON array: [0] raises IndexError
\*   "null"     an array whose first element is null or an array: float()
\*              raises TypeError
\*   "text"     an array whose first element is a string that is not a
\*              number: float() raises ValueError
payload_error(kind) ==
    CASE kind = "number" -> ""
      [] kind = "notjson" -> "ValueError"
      [] kind = "object" -> "KeyError"
      [] kind = "empty" -> "IndexError"
      [] kind = "null" -> "TypeError"
      [] kind = "text" -> "ValueError"

\* get_state after the request: r is the response to the get request of a
\* device of the table
get_state_result_raw(device, r) ==
    IF ~r.conn THEN [exc |-> "ConnectionError", state |-> 0]
    ELSE IF payload_error(r.payload) # ""
    THEN [exc |-> payload_error(r.payload), state |-> 0]
    ELSE [exc |-> "", state |-> process_pin(r.body, 0)]

get_state_result_all_whole(device, r) ==
    IF ~r.conn THEN [exc |-> "ConnectionError", state |-> 0]
    ELSE IF payload_error(r.payload) # ""
    THEN [exc |-> payload_error(r.payload), state |-> 0]
    ELSE LET state == process_pin(r.body, 0)
         IN  IF device \in exclude
             THEN [exc |-> "", state |-> state]
             ELSE IF "default" \notin DOMAIN Item(all_devices, device)
             THEN [exc |-> "KeyError", state |-> 0]
             ELSE [exc |-> "",
                   state |-> process_pin(state, Item(all_devices, device).default)]

get_state_result(device, r) ==
    IF ~r.conn THEN [exc |-> "ConnectionError", state |-> 0]
    ELSE IF payload_error(r.payload) # ""
    THEN [exc |-> payload_error(r.payload), state |-> 0]
    ELSE LET state == process_pin(r.body, 0)
         IN  IF state \notin {0, 10} \/ device \in exclude
             THEN [exc |-> "", state |-> state]
             ELSE IF "default" \notin DOMAIN Item(all_devices, device)
             THEN [exc |-> "KeyError", state |-> 0]
             ELSE [exc |-> "",
                   state |-> process_pin(state, Item(all_devices, device).default)]

(***************************************************************************)
(* Action dispatcher                                                       *)
(***************************************************************************)
\* the branch of take_action an action token selects
take_action_branch(action, args) ==
    IF Take(action, 1) = <<"f">> THEN "flip"
    ELSE IF Take(action, 2) = <<"o", "f">> THEN "off"
    ELSE IF action = <<"o", "n">> THEN "on"
    ELSE IF Take(action, 1) = <<"j">> THEN "just"
    ELSE IF Take(action, 1) = <<"p">> THEN "print"
    ELSE IF Take(action, 1) = <<"s">>
    THEN (IF Len(args) # 1 THEN "status" ELSE "status1")
    ELSE "set"

\* the devices the just branch turns off
devices_to_turn_off_with_args(args) ==
    SelectSeq(Keys(all_devices),
              LAMBDA device :
                  /\ device \notin exclude
                  /\ Item(all_devices, device).group
                         \in {Item(all_devices, a).group : a \in Elems(args)})

devices_to_turn_off(args) ==
    SelectSeq(Keys(all_devices),
              LAMBDA device :
                  /\ device \notin exclude
                  /\ Item(all_devices, device).group
                         \in {Item(all_devices, a).group : a \in Elems(args)}
                  /\ device \notin Elems(args))

\* the device an iteration of a loop over a device list works on
apply_function_device_reversed(devs, k) == devs[Len(devs) + 1 - k]

apply_function_device(devs, k) == devs[k]

\* the first call an iteration of the branch's loop makes
first_call(br) ==
    IF br \in {"flip", "print", "status", "status1"}
    THEN "get_state" ELSE "set_to_state"

(***************************************************************************)
(* Presentation                                                            *)
(***************************************************************************)
Max(S) == CHOOSE m \in S : \A n \in S : n <= m

\* the rows of the table: name, width of the name column, state and its width
print_status(status_dict) ==
    LET max_len == Max({len(status_dict[k][1]) : k \in DOMAIN status_dict}) + 1
    IN  [k \in DOMAIN status_dict |->
            [name |-> status_dict[k][1], name_width |-> max_len,
             state |-> status_dict[k][2], state_width |-> 3]]

(***************************************************************************)
(* Inputs: command lines and responses of the remote service               *)
(***************************************************************************)
RECURSIVE SeqsUpTo(_, _)
SeqsUpTo(S, n) ==
    IF n = 0 THEN {<<>>}
    ELSE LET shorter == SeqsUpTo(S, n - 1)
         IN  shorter \cup {Append(q, x) : q \in shorter, x \in S}

\* names given as explicit selectors: devices of the tables, the excluded
\* devices, and a name no table has
ExplicitTokens ==
    {"bedroom_light", "kitchen_light", "bedroom_lamp", "temperature", "humidity",
     "nosuch"}
SelectorTokens == {"all", "a", "bedroom", "kitchen"}
TrailingTokens == {"kitchen_light", "nosuch"}

ArgLists ==
    (SeqsUpTo(ExplicitTokens, MaxArgs) \ {<<>>})
    \cup {<<t>> \o rest : t \in SelectorTokens,
                          rest \in SeqsUpTo(TrailingTokens, MaxArgs - 1)}

ActionTokens ==
    { <<"f">>, <<"f", "l", "i", "p">>,
      <<"o", "f">>, <<"o", "f", "f">>,
      <<"o", "n">>, <<"o">>,
      <<"j">>,
      <<"p">>,
      <<"s">>,
      <<"1">>, <<"2">>, <<"0", ".", "5">>,
      <<"x">> }

\* a get response: no connection, or a status code and a payload, of one
\* of the kinds of payload_error; body is the number (in tenths) a payload
\* of kind "number" starts with
GetResponses ==
    {[conn |-> FALSE, code |-> 0, payload |-> "", body |-> 0]}
    \cup {[conn |-> TRUE, code |-> 200, payload |-> "number", body |-> b] :
              b \in {0, 10, 20, 5}}
    \cup {[conn |-> TRUE, code |-> 200, payload |-> k, body |-> 0] :
              k \in {"text", "null", "empty", "object"}}
    \cup {[conn |-> TRUE, code |-> 404, payload |-> "notjson", body |-> 0],
          [conn |-> TRUE, code |-> 404, payload |-> "number", body |-> 10]}

UpdateResponses ==
    {[conn |-> FALSE, code |-> 0], [conn |-> TRUE, code |-> 200],
     [conn |-> TRUE, code |-> 404]}

(***************************************************************************)
(* The invocation                                                          *)
(***************************************************************************)
Goto(p, br, devs, k, v, st, out, e) ==
    /\ pc' = p
    /\ branch' = br
    /\ devices' = devs
    /\ i' = k
    /\ value' = v
    /\ status' = st
    /\ stdout' = out
    /\ exc' = e

Raise(e) == Goto("failed", branch, devices, i, value, status, stdout, e)

\* the loop of the branch over devs has ended
Finish(br, args, st) ==
    CASE br = "just" ->
            LET off == devices_to_turn_off(args)
            IN  IF off = <<>>
                THEN Goto("done", br, <<>>, 0, 0, st, stdout, "")
                ELSE Goto("set_to_state", "just_off", off, 1, 0, st, stdout, "")
      [] br = "print" ->
            IF st = <<>>
            THEN Goto("failed", br, <<>>, 0, 0, st, stdout, "ValueError")
            ELSE Goto("done", br, <<>>, 0, 0, st,
                      Append(stdout, [kind |-> "table", rows |-> print_status(st)]),
                      "")
      [] br = "status" ->
            Goto("done", br, <<>>, 0, 0, st,
                 Append(stdout, [kind |-> "dict", items |-> st]), "")
      [] OTHER -> Goto("done", br, <<>>, 0, 0, st, stdout, "")

\* iteration i of the running loop has completed
Advance(st) ==
    IF i < Len(devices)
    THEN Goto(first_call(branch), branch, devices, i + 1,
              IF branch = "flip" THEN 0 ELSE value, st, stdout, "")
    ELSE Finish(branch, devices_to_modify, st)

LogEntry(op, device, pin, arg, v, r, state) ==
    [op |-> op, device |-> device, pin |-> pin, arg |-> arg, value |-> v,
     conn |-> r.conn, code |-> r.code, payload |-> r.payload, body |-> r.body,
     state |-> state]

\* fewer than two tokens after the program name
usage ==
    /\ pc = "start"
    /\ \E action \in {<<>>, <<"o", "n">>} :
           argv' = [args |-> <<>>, action |-> action]
    /\ Goto("done", "help", <<>>, 0, 0, <<>>, <<[kind |-> "help"]>>, "")
    /\ UNCHANGED <<all_devices, devices_to_modify, log, codec_d, codec_trace>>

\* choose_devices, then take_action up to its first request
main ==
    /\ pc = "start"
    /\ \E args \in ArgLists, action \in ActionTokens :
           LET dm == choose_devices(action, args)
               br == take_action_branch(action, dm)
               v == CASE br = "on" -> 10
                      [] br = "just" -> 10
                      [] br = "set" -> float(action).v
                      [] OTHER -> 0
           IN  /\ argv' = [args |-> args, action |-> action]
               /\ devices_to_modify' = dm
               /\ IF br = "set" /\ ~float(action).ok
                  THEN Goto("failed", br, <<>>, 0, 0, <<>>, <<>>, "ValueError")
                  ELSE IF dm = <<>>
                  THEN Finish(br, dm, <<>>)
                  ELSE Goto(first_call(br), br, dm, 1, v, <<>>, <<>>, "")
    /\ UNCHANGED <<all_devices, log, codec_d, codec_trace>>

\* one call of set_to_state, by apply_function or by flip_state
set_to_state ==
    /\ pc = "set_to_state"
    /\ LET device == apply_function_device(devices, i)
           call == set_to_state_call(device, value)
       IN  IF call.exc # ""
           THEN Raise(call.exc) /\ UNCHANGED log
           ELSE \E r \in UpdateResponses :
                    /\ log' = Append(log,
                           LogEntry("update", device, call.pin, value, call.value,
                                    [conn |-> r.conn, code |-> r.code,
                                     payload |-> "", body |-> 0], 0))
                    /\ IF ~r.conn
                       THEN Raise("ConnectionError")
                       ELSE Advance(status)
    /\ UNCHANGED <<all_devices, argv, devices_to_modify, codec_d, codec_trace>>

\* one call of get_state, by flip_state, get_status_as_dict or take_action
get_state ==
    /\ pc = "get_state"
    /\ LET device == apply_function_device(devices, i)
       IN  IF device \notin KeySet(all_devices)
           THEN Raise("KeyError") /\ UNCHANGED log
           ELSE \E r \in GetResponses :
                    LET res == get_state_result(device, r)
                    IN  /\ log' = Append(log,
                               LogEntry("get", device, Item(all_devices, device).pin,
                                        0, 0, r, res.state))
                        /\ IF res.exc # ""
                           THEN Raise(res.exc)
                           ELSE CASE branch = "flip" ->
                                       IF ~is_integer(res.state)
                                       THEN Raise("TypeError")
                                       ELSE Goto("set_to_state", branch, devices, i,
                                                 10 * Xor(res.state \div 10, 1),
                                                 status, stdout, "")
                                  [] branch = "status1" ->
                                       Goto("done", branch, <<>>, 0, 0, status,
                                            Append(stdout, [kind |-> "scalar",
                                                            state |-> res.state]),
                                            "")
                                  [] OTHER ->
                                       Advance(DictSet(status, device, res.state))
    /\ UNCHANGED <<all_devices, argv, devices_to_modify, codec_d, codec_trace>>

Init ==
    /\ all_devices \in Configurations
    /\ argv = [args |-> <<>>, action |-> <<>>]
    /\ pc = "start"
    /\ branch = ""
    /\ devices_to_modify = <<>>
    /\ devices = <<>>
    /\ i = 0
    /\ value = 0
    /\ status = <<>>
    /\ log = <<>>
    /\ stdout = <<>>
    /\ exc = ""
    /\ codec_d = 0
    /\ codec_trace = <<>>

Next == usage \/ main \/ set_to_state \/ get_state

Spec == Init /\ [][Next]_vars

(***************************************************************************)
(* The codec on its own: process_pin applied repeatedly to one input       *)
(***************************************************************************)
CodecInputs == {10 * n : n \in (0 - MaxVal)..MaxVal} \cup {5, -5, 15}

InitCodec ==
    /\ all_devices = shipped_devices
    /\ argv = [args |-> <<>>, action |-> <<>>]
    /\ pc = "codec"
    /\ branch = ""
    /\ devices_to_modify = <<>>
    /\ devices = <<>>
    /\ i = 0
    /\ value = 0
    /\ status = <<>>
    /\ log = <<>>
    /\ stdout = <<>>
    /\ exc = ""
    /\ codec_d \in {0, 1}
    /\ codec_trace \in {<<x>> : x \in CodecInputs}

apply_process_pin ==
    /\ pc = "codec"
    /\ Len(codec_trace) < 3
    /\ codec_trace' = Append(codec_trace,
                             process_pin(codec_trace[Len(codec_trace)], codec_d))
    /\ UNCHANGED <<all_devices, argv, pc, branch, devices_to_modify, devices, i,
                   value, status, log, stdout, exc, codec_d>>

NextCodec == apply_process_pin

SpecCodec == InitCodec /\ [][NextCodec]_vars

(***************************************************************************)
(* Vocabulary of the properties                                            *)
(***************************************************************************)
Started == pc \in {"set_to_state", "get_state", "done", "failed"} /\ branch # "help"
ExplicitMode ==
    argv.args # <<>> /\ argv.args[1] \notin ({"all", "a"} \cup groups)
ReadAction == argv.action # <<>> /\ argv.action[1] \in {"s", "p"}
Known == KeySet(all_devices)
Pos(name) == CHOOSE k \in DOMAIN all_devices : all_devices[k][1] = name
DefaultOf(name) == Item(all_devices, name).default
IsPrefix(s, t) == Len(s) <= Len(t) /\ \A k \in DOMAIN s : s[k] = t[k]

\* a whole number in tenths, exclusive-or'ed with a flag in {0, 1}
FlipBit(x, d) ==
    IF d = 0 THEN x ELSE IF (x \div 10) % 2 = 0 THEN x + 10 ELSE x - 10

\* C1: no update request is ever issued for a device of the exclusion set;
\* excluded devices are only the target of get requests.
C1_ExcludedNeverWritten ==
    \A k \in DOMAIN log : log[k].device \in exclude => log[k].op = "get"

C1_Witness ==
    /\ ExplicitMode
    /\ branch = "flip"
    /\ pc = "failed" /\ exc = "KeyError"
    /\ i = 2 /\ devices[2] = "temperature"
    /\ Len(log) = 3
    /\ log[3].op = "get" /\ log[3].device = "temperature"
    /\ log[3].payload = "number" /\ log[3].state = 10

\* C2: in wildcard or group mode choose_devices returns, in table order,
\* the devices of the table (wildcard) or of the named group, without the
\* excluded devices unless the action begins with s or p; later selector
\* tokens play no part.
C2_WildcardAndGroupResolution ==
    (Started /\ ~ExplicitMode) =>
        /\ \A x \in Elems(devices_to_modify) : x \in Known
        /\ \A x \in Known :
               x \in Elems(devices_to_modify) <=>
                   /\ \/ argv.args[1] \in {"all", "a"}
                      \/ /\ "group" \in DOMAIN Item(all_devices, x)
                         /\ Item(all_devices, x).group = argv.args[1]
                   /\ (x \notin exclude \/ ReadAction)
        /\ \A a, b \in DOMAIN devices_to_modify :
               a < b => Pos(devices_to_modify[a]) < Pos(devices_to_modify[b])

C2_Witness ==
    /\ Started
    /\ argv.args = <<"all", "nosuch">>
    /\ argv.action = <<"p">>
    /\ Len(all_devices) = 6
    /\ devices_to_modify = Keys(all_devices)

\* C3: just on an explicit list A of known, non-excluded devices writes
\* logical 1 to the devices of A and logical 0 to exactly the non-excluded
\* devices outside A whose group is the group of some device of A.
C3_JustTargets ==
    LET A == Elems(argv.args)
        Off == {d \in Known : /\ d \notin exclude
                              /\ d \notin A
                              /\ \E a \in A : Item(all_devices, d).group
                                                = Item(all_devices, a).group}
    IN  (/\ Started
         /\ branch \in {"just", "just_off"}
         /\ ExplicitMode
         /\ \A a \in A : a \in Known /\ a \notin exclude)
        => /\ \A k \in DOMAIN log :
                  /\ log[k].op = "update"
                  /\ log[k].arg \in {0, 10}
                  /\ log[k].arg = 10 => log[k].device \in A
                  /\ log[k].arg = 0 => log[k].device \in Off
                  /\ log[k].value = FlipBit(log[k].arg, DefaultOf(log[k].device))
           /\ pc = "done" =>
                  /\ {log[k].device : k \in {n \in DOMAIN log : log[n].arg = 10}} = A
                  /\ {log[k].device : k \in {n \in DOMAIN log : log[n].arg = 0}} = Off

C3_Witness ==
    /\ pc = "done"
    /\ branch = "just_off"
    /\ argv.args = <<"kitchen_light", "bedroom_light">>
    /\ Len(log) = 4
    /\ log[3].device = "bedroom_lamp" /\ log[3].arg = 0 /\ log[3].value = 10
    /\ log[4].device = "kitchen_fan" /\ log[4].arg = 0 /\ log[4].value = 0

\* C4: flip issues, for each device, one get request followed by one update
\* request; when the device is not excluded and the raw value read is 0 or
\* 1, the update carries the other raw value, whatever the inversion flag.
C4_FlipToggles ==
    (Started /\ branch = "flip") =>
        /\ \A k \in DOMAIN log :
               /\ log[k].op = "update" =>
                      /\ k > 1
                      /\ log[k - 1].op = "get"
                      /\ log[k - 1].device = log[k].device
                      /\ (log[k - 1].body \in {0, 10} /\ log[k].device \notin exclude)
                             => log[k].value = 10 - log[k - 1].body
               /\ (log[k].op = "get" /\ k < Len(log)) =>
                      /\ log[k + 1].op = "update"
                      /\ log[k + 1].device = log[k].device
        /\ pc = "done" => Len(log) = 2 * Len(devices_to_modify)

C4_Witness ==
    /\ pc = "done"
    /\ branch = "flip"
    /\ Len(log) = 2
    /\ log[1].op = "get" /\ log[1].device = "kitchen_light"
    /\ log[1].body = 10 /\ log[1].state = 0
    /\ log[2].op = "update" /\ log[2].arg = 10 /\ log[2].value = 0

\* C5: get_state returns the raw value exclusive-or'ed with the inversion
\* flag exactly when the raw value is 0 or 1 and the device is not
\* excluded, and the raw value unchanged otherwise; set_to_state applies
\* the flag to every whole number and leaves fractional values alone.
C5_ReadWriteAsymmetry ==
    \A k \in DOMAIN log :
        /\ (log[k].op = "get" /\ log[k].conn /\ log[k].payload = "number") =>
               log[k].state =
                   IF log[k].body \in {0, 10} /\ log[k].device \notin exclude
                   THEN FlipBit(log[k].body, DefaultOf(log[k].device))
                   ELSE log[k].body
        /\ log[k].op = "update" =>
               log[k].value =
                   IF log[k].arg % 10 = 0
                   THEN FlipBit(log[k].arg, DefaultOf(log[k].device))
                   ELSE log[k].arg

C5_Witness ==
    /\ Len(log) = 2
    /\ log[1].op = "get" /\ log[1].device = "kitchen_light"
    /\ log[1].body = 20 /\ log[1].state = 20
    /\ log[2].op = "update" /\ log[2].arg = 30 /\ log[2].value = 20

\* C6: a numeric action issues one update per resolved device and that
\* update carries the number given on the command line, whatever the
\* device's inversion flag.
C6_NumericSetIsLiteral ==
    (Started /\ branch = "set") =>
        /\ \A k \in DOMAIN log :
               log[k].op = "update" /\ log[k].value = float(argv.action).v
        /\ pc = "done" => Len(log) = Len(devices_to_modify)

\* C7: a transport error (no connection, a status other than 2xx, a payload
\* that is not numeric) ends the invocation at that request: the request is
\* the last one of the invocation, and the invocation has failed.
TransportError(e) ==
    \/ ~e.conn
    \/ e.code # 200
    \/ e.op = "get" /\ e.payload # "number"

C7_TransportErrorIsFatal ==
    \A k \in DOMAIN log :
        TransportError(log[k]) =>
            /\ k = Len(log)
            /\ pc = "failed"
            /\ stdout = <<>>

\* C8: an explicit selector list with a name the table does not have never
\* completes: requests are issued only for the names before the first
\* unknown one, in order, and once its turn comes the invocation fails with
\* a KeyError without having issued a request for it, every earlier request
\* having been answered.
C8_UnknownNameFails ==
    LET unknown == {k \in DOMAIN argv.args : argv.args[k] \notin Known}
        u == CHOOSE k \in unknown : \A n \in unknown : k <= n
        per == IF branch = "flip" THEN 2 ELSE 1
    IN  (Started /\ ExplicitMode /\ unknown # {}
         /\ (branch = "set" => float(argv.action).ok))
        => /\ pc # "done"
           /\ branch # "just_off"
           /\ stdout = <<>>
           /\ i <= u
           /\ Len(log) <= per * (u - 1)
           /\ \A k \in DOMAIN log : log[k].device = argv.args[((k - 1) \div per) + 1]
           /\ (pc = "failed" /\ i = u) =>
                  /\ exc = "KeyError"
                  /\ Len(log) = per * (u - 1)
                  /\ \A k \in DOMAIN log :
                         /\ log[k].conn
                         /\ log[k].op = "get" => log[k].payload = "number"

C8_Witness ==
    /\ ExplicitMode
    /\ argv.args = <<"bedroom_light", "nosuch">>
    /\ branch = "print"
    /\ pc = "failed" /\ exc = "KeyError"
    /\ i = 2
    /\ Len(log) = 1 /\ log[1].device = "bedroom_light"
    /\ log[1].payload = "number"

\* C9: on whole numbers process_pin is the exclusive or with the flag, and
\* applying it twice with the same flag gives the number back.
C9_CodecInvolution ==
    (pc = "codec" /\ codec_trace[1] % 10 = 0) =>
        /\ \A k \in 2..Len(codec_trace) :
               codec_trace[k] = FlipBit(codec_trace[k - 1], codec_d)
        /\ Len(codec_trace) >= 3 => codec_trace[3] = codec_trace[1]

C9_Witness ==
    /\ pc = "codec"
    /\ codec_d = 1
    /\ codec_trace = <<-30, -40, -30>>

\* C10: the requests are issued in the order of the resolved list: one
\* update per device for on, off and a number, one get per device for print
\* and status, get then update device by device for flip, and for just the
\* logical-1 updates in argument order before the logical-0 updates in
\* table order.
ExpectedRequests ==
    CASE branch \in {"on", "off", "set"} ->
            [k \in DOMAIN devices_to_modify |-> <<"update", devices_to_modify[k]>>]
      [] branch \in {"print", "status", "status1"} ->
            [k \in DOMAIN devices_to_modify |-> <<"get", devices_to_modify[k]>>]
      [] branch = "flip" ->
            [k \in 1..(2 * Len(devices_to_modify)) |->
                <<IF k % 2 = 1 THEN "get" ELSE "update",
                  devices_to_modify[(k + 1) \div 2]>>]
      [] OTHER -> <<>>

C10_RequestOrder ==
    Started =>
        IF branch \in {"just", "just_off"}
        THEN LET ones == {k \in DOMAIN log : log[k].arg = 10}
                 zeros == {k \in DOMAIN log : log[k].arg = 0}
             IN  /\ \A k \in DOMAIN log : log[k].op = "update"
                 /\ ones \cup zeros = DOMAIN log
                 /\ \A a \in ones, b \in zeros : a < b
                 /\ \A k \in ones : log[k].device = devices_to_modify[k]
                 /\ \A a, b \in zeros :
                        a < b => Pos(log[a].device) < Pos(log[b].device)
                 /\ pc = "done" => Cardinality(ones) = Len(devices_to_modify)
        ELSE /\ IsPrefix([k \in DOMAIN log |-> <<log[k].op, log[k].device>>],
                         ExpectedRequests)
             /\ pc = "done" =>
                    Len(log) = Len(ExpectedRequests)

C10_Witness ==
    /\ pc = "done"
    /\ branch = "just_off"
    /\ devices_to_modify = <<"kitchen_light", "bedroom_light">>
    /\ Len(log) = 4
    /\ log[1].device = "kitchen_light" /\ log[2].device = "bedroom_light"
    /\ log[3].device = "bedroom_lamp" /\ log[4].device = "kitchen_fan"
    /\ log[1].code = 404

====
